---- MODULE Spec2Model ----
(***************************************************************************)
(* A model of first_game.py: the game loop of main(), Player.update,       *)
(* Enemy.__init__ and Enemy.update, and the two sprite groups.             *)
(*                                                                         *)
(* One frame of the loop is the sequence of steps                          *)
(*   loop -> events* -> player -> enemies -> render -> collide -> flip     *)
(* and the program counter pc names the step about to run.                 *)
(*                                                                         *)
(* pygame.event.get() returns a list whose length is known at once         *)
(* (pending) and whose events are revealed one by one as the for loop      *)
(* reaches them.                                                           *)
(***************************************************************************)
EXTENDS Integers, Sequences, FiniteSets, TLC

(* ------------------------------ constants ------------------------------ *)

SCREEN_WIDTH == 800

SCREEN_HEIGHT == 600

\* Player.width, Player.height
PlayerWidth == 75

PlayerHeight == 25

\* Enemy.width, Enemy.height
EnemyWidth == 20

EnemyHeight == 10

\* The step of Player.update along one axis
PlayerStep == 5

(* -------------------------------- bounds ------------------------------- *)

\* Enemies created during one run of main()
MaxEnemies == 2

\* Events returned by one call of pygame.event.get()
MaxBatch == 2

(* ------------------------------- inputs -------------------------------- *)

\* The sprite that is the player; enemies are numbered from 1 as created
PLAYER == 0

EnemyIds == 1..MaxEnemies

\* The value of the local pressed_keys before its first assignment
Unbound == [unbound |-> TRUE]

Key(u, d, l, r) == [K_UP |-> u, K_DOWN |-> d, K_LEFT |-> l, K_RIGHT |-> r]

\* Every state of the four arrow keys
AllKeys == [K_UP : BOOLEAN, K_DOWN : BOOLEAN, K_LEFT : BOOLEAN, K_RIGHT : BOOLEAN]

NoKeys == Key(FALSE, FALSE, FALSE, FALSE)

\* The keyboard states the environment of the game loop chooses from
LoopKeys == {NoKeys, Key(TRUE, FALSE, TRUE, FALSE)}

Event(t, k) == [type |-> t, key |-> k]

\* The events pygame.event.get() may return
EventKinds ==
    { Event("QUIT", "NONE"), Event("KEYDOWN", "K_ESCAPE"),
      Event("KEYDOWN", "K_SPACE"), Event("ADD_ENEMY", "NONE") }

\* The lengths of the list pygame.event.get() may return
BatchSizes == 0..MaxBatch

\* A window close or a key-down of Escape, as the environment sends them
QuitEquivalent(e) == e \in {Event("QUIT", "NONE"), Event("KEYDOWN", "K_ESCAPE")}

\* A tick of the timer set by pygame.time.set_timer(ADD_ENEMY, ...)
SpawnTick(e) == e = Event("ADD_ENEMY", "NONE")

\* Enemy.__init__: the bounds of the three calls of random.randint
SpawnXMin == SCREEN_WIDTH + 20

SpawnXMax == SCREEN_WIDTH + 100

SpawnYMin == 0

SpawnYMax == SCREEN_HEIGHT

SpeedMin == 5

SpeedMax == 20

\* The (x, y, speed) triples random.randint yields in Enemy.__init__,
\* each within the ranges of the three calls
SpawnChoices ==
    { <<SCREEN_WIDTH + 30, 0, 20>>, <<SCREEN_WIDTH + 30, SCREEN_HEIGHT, 20>> }

(* ------------------------------ rectangles ----------------------------- *)

Right(r, w) == r.left + w

Bottom(r, h) == r.top + h

\* colliderect with rectangles that touch counted as colliding
CollideRectClosed(a, aw, ah, b, bw, bh) ==
    /\ a.left <= Right(b, bw)
    /\ b.left <= Right(a, aw)
    /\ a.top <= Bottom(b, bh)
    /\ b.top <= Bottom(a, ah)

\* pygame.Rect.colliderect for rectangles of positive size
CollideRect(a, aw, ah, b, bw, bh) ==
    /\ a.left < Right(b, bw)
    /\ b.left < Right(a, aw)
    /\ a.top < Bottom(b, bh)
    /\ b.top < Bottom(a, ah)

(* -------------------------------- Player ------------------------------- *)

\* Player.__init__: surface.get_rect() places the rectangle at the origin
PlayerInit == [left |-> 0, top |-> 0]

DeltaY(keys) ==
    LET y1 == IF keys.K_UP THEN -PlayerStep ELSE 0
    IN  IF keys.K_DOWN THEN PlayerStep ELSE y1

\* DeltaX with the two tests in the other order: left overwrites right
DeltaXLeftWins(keys) ==
    LET x1 == IF keys.K_RIGHT THEN PlayerStep ELSE 0
    IN  IF keys.K_LEFT THEN -PlayerStep ELSE x1

DeltaX(keys) ==
    LET x1 == IF keys.K_LEFT THEN -PlayerStep ELSE 0
    IN  IF keys.K_RIGHT THEN PlayerStep ELSE x1

MoveIp(r, dx, dy) == [r EXCEPT !.left = @ + dx, !.top = @ + dy]

ClampLeft(r) == IF r.left < 0 THEN [r EXCEPT !.left = 0] ELSE r

ClampRight(r) ==
    IF Right(r, PlayerWidth) > SCREEN_WIDTH
    THEN [r EXCEPT !.left = SCREEN_WIDTH - PlayerWidth]
    ELSE r

ClampTop(r) == IF r.top <= 0 THEN [r EXCEPT !.top = 0] ELSE r

ClampBottom(r) ==
    IF Bottom(r, PlayerHeight) >= SCREEN_HEIGHT
    THEN [r EXCEPT !.top = SCREEN_HEIGHT - PlayerHeight]
    ELSE r

\* Player.update without the clamp of the right and bottom edges
PlayerUpdateRectNoFarClamp(r, keys) ==
    ClampTop(ClampLeft(MoveIp(r, DeltaX(keys), DeltaY(keys))))

\* Player.update(pressed_keys) on the player's rectangle
PlayerUpdateRect(r, keys) ==
    ClampBottom(ClampTop(ClampRight(ClampLeft(MoveIp(r, DeltaX(keys), DeltaY(keys))))))

(* -------------------------------- Enemy -------------------------------- *)

\* Enemy.__init__ with the margin of 20 forgotten in the range of x
EnemyInitNoMargin(x, y, s) ==
    [left |-> x - 20 - (EnemyWidth \div 2), top |-> y - (EnemyHeight \div 2), speed |-> s]

\* Enemy.__init__: the rectangle is centred on (x, y)
EnemyInit(x, y, s) ==
    [left |-> x - (EnemyWidth \div 2), top |-> y - (EnemyHeight \div 2), speed |-> s]

\* Enemy.update moving by a fixed step, whatever the speed
EnemyMoveFixedStep(e) == [e EXCEPT !.left = @ - SpeedMin]

\* Enemy.update: the move
EnemyMove(e) == [e EXCEPT !.left = @ - e.speed]

\* The test of Enemy.update with <= for <
EnemyOffScreenOrTouching(e) == Right(e, EnemyWidth) <= 0

\* Enemy.update: the test that ends in self.kill()
EnemyOffScreen(e) == Right(e, EnemyWidth) < 0

(* -------------------------------- state -------------------------------- *)

VARIABLES
    running,        \* the global running
    pc,             \* the step of main() about to run
    pending,        \* events left of the list pygame.event.get() returned
    keyboard,       \* the keyboard as of the last event pump
    pressed_keys,   \* the local pressed_keys
    player,         \* player.rect
    sprite,         \* the Enemy objects created so far: rect and speed
    enemies,        \* the group enemies
    all_sprites,    \* the group all_sprites
    drawn,          \* the sprites blitted on the screen by the last render
    music,          \* the background music
    collisions,     \* calls of collision_sound.play()
    quitFrame,      \* a quit-equivalent event was drained in this frame
    ticks,          \* spawn-timer events drained so far
    born,           \* per Enemy, the (x, y, speed) random.randint gave it
    updates,        \* per Enemy, the calls of its update() so far
    lateSpawns      \* enemies created in this frame after a quit event

vars ==
    << running, pc, pending, keyboard, pressed_keys, player, sprite, enemies,
       all_sprites, drawn, music, collisions, quitFrame, ticks, born, updates,
       lateSpawns >>

\* The state when the while loop is first reached
Init ==
    /\ running = TRUE
    /\ pc = "loop"
    /\ pending = 0
    /\ keyboard = NoKeys
    /\ pressed_keys = Unbound
    /\ player = PlayerInit
    /\ sprite = << >>
    /\ enemies = {}
    /\ all_sprites = {PLAYER}
    /\ drawn = {}
    /\ music = "playing"
    /\ collisions = 0
    /\ quitFrame = FALSE
    /\ ticks = 0
    /\ born = << >>
    /\ updates = << >>
    /\ lateSpawns = 0

(* ------------------------------- the loop ------------------------------ *)

\* Where the for loop goes with n events left
AfterEvent(n) == IF n = 0 THEN "player" ELSE "events"

\* The for loop with a break once running is false
AfterHandledBreak(n) == IF n = 0 \/ ~running' THEN "player" ELSE "events"

\* The body of the for loop has no break: whatever the event was, the loop
\* goes on with the events left
AfterHandled(n) == AfterEvent(n)

\* The loop as `while True`
LoopTestAlways == TRUE

\* The condition of the while loop
LoopTest == running

\* while running: ... for event in pygame.event.get():
\* with the list's length in `sizes` and the keyboard in `keysets`
PollFrom(sizes, keysets) ==
    /\ pc = "loop"
    /\ LoopTest
    /\ \E n \in sizes, keys \in keysets :
        /\ pending' = n
        /\ keyboard' = keys
        /\ pc' = AfterEvent(n)
    /\ quitFrame' = FALSE
    /\ lateSpawns' = 0
    /\ UNCHANGED << running, pressed_keys, player, sprite, enemies, all_sprites,
                    drawn, music, collisions, ticks, born, updates >>

Poll == PollFrom(BatchSizes, LoopKeys)

\* IsQuit with the Escape key forgotten
IsQuitWindowOnly(e) == e.type = "QUIT"

\* IsQuit with the test of the key forgotten
IsQuitAnyKey(e) == e.type = "QUIT" \/ e.type = "KEYDOWN"

\* event.type == QUIT or (event.type == KEYDOWN and event.key == K_ESCAPE)
IsQuit(e) == e.type = "QUIT" \/ (e.type = "KEYDOWN" /\ e.key = "K_ESCAPE")

\* event.type == ADD_ENEMY
IsAddEnemy(e) == e.type = "ADD_ENEMY"

\* enemies.add forgotten
AddToEnemiesNot(id) == enemies

\* enemies.add(new_enemy)
AddToEnemies(id) == enemies \cup {id}

\* all_sprites.add(new_enemy)
AddToAllSprites(id) == all_sprites \cup {id}

\* The body of the for loop, for the first event left, with the values
\* of random.randint in Enemy.__init__ drawn from `choices`
HandleEventFrom(choices) ==
    /\ pc = "events"
    /\ pending > 0
    /\ \E e \in EventKinds :
        /\ SpawnTick(e) => ticks < MaxEnemies
        /\ running' = IF IsQuit(e) THEN FALSE ELSE running
        /\ quitFrame' = (quitFrame \/ QuitEquivalent(e))
        /\ ticks' = IF SpawnTick(e) THEN ticks + 1 ELSE ticks
        /\ lateSpawns' = IF SpawnTick(e) /\ quitFrame THEN lateSpawns + 1 ELSE lateSpawns
        /\ IF IsAddEnemy(e)
           THEN \E c \in choices :
                    LET id == Len(sprite) + 1 IN
                    /\ sprite' = Append(sprite, EnemyInit(c[1], c[2], c[3]))
                    /\ born' = Append(born, [x |-> c[1], y |-> c[2], speed |-> c[3]])
                    /\ updates' = Append(updates, 0)
                    /\ enemies' = AddToEnemies(id)
                    /\ all_sprites' = AddToAllSprites(id)
           ELSE UNCHANGED << sprite, born, updates, enemies, all_sprites >>
    /\ pressed_keys' = keyboard
    /\ pending' = pending - 1
    /\ pc' = AfterHandled(pending - 1)
    /\ UNCHANGED << keyboard, player, drawn, music, collisions >>

HandleEvent == HandleEventFrom(SpawnChoices)

\* player.update(pressed_keys)
PlayerUpdate ==
    /\ pc = "player"
    /\ IF pressed_keys = Unbound
       THEN /\ pc' = "error"
            /\ UNCHANGED player
       ELSE /\ player' = PlayerUpdateRect(player, pressed_keys)
            /\ pc' = "enemies"
    /\ UNCHANGED << running, pending, keyboard, pressed_keys, sprite, enemies,
                    all_sprites, drawn, music, collisions, quitFrame, ticks,
                    born, updates, lateSpawns >>

\* The members of a group that kill themselves in this pass of update()
Killed(group) == { id \in group : EnemyOffScreen(EnemyMove(sprite[id])) }

\* A kill() that leaves the sprite in all_sprites
KillFromAllSpritesNot(dead) == all_sprites

\* A kill() that leaves the sprite in enemies
KillFromEnemiesNot(dead) == enemies

\* Sprite.kill(): the sprite leaves every group it is a member of
KillFromEnemies(dead) == enemies \ dead

KillFromAllSprites(dead) == all_sprites \ dead

\* enemies.update()
EnemiesUpdate ==
    /\ pc = "enemies"
    /\ sprite' = [id \in DOMAIN sprite |->
                    IF id \in enemies THEN EnemyMove(sprite[id]) ELSE sprite[id]]
    /\ updates' = [id \in DOMAIN updates |->
                     IF id \in enemies THEN updates[id] + 1 ELSE updates[id]]
    /\ enemies' = KillFromEnemies(Killed(enemies))
    /\ all_sprites' = KillFromAllSprites(Killed(enemies))
    /\ pc' = "render"
    /\ UNCHANGED << running, pending, keyboard, pressed_keys, player, drawn, music,
                    collisions, quitFrame, ticks, born, lateSpawns >>

\* screen.blit(BACKGROUND, ...); for sprite in all_sprites: screen.blit(...)
Render ==
    /\ pc = "render"
    /\ drawn' = all_sprites
    /\ pc' = "collide"
    /\ UNCHANGED << running, pending, keyboard, pressed_keys, player, sprite,
                    enemies, all_sprites, music, collisions, quitFrame, ticks,
                    born, updates, lateSpawns >>

\* pygame.sprite.spritecollideany(player, enemies)
SpriteCollideAny ==
    \E id \in enemies :
        CollideRect(player, PlayerWidth, PlayerHeight,
                    sprite[id], EnemyWidth, EnemyHeight)

\* spritecollide(player, enemies, True): the enemies hit are killed
CollideDoKill ==
    { id \in enemies :
        ~CollideRect(player, PlayerWidth, PlayerHeight,
                     sprite[id], EnemyWidth, EnemyHeight) }

\* spritecollideany only tests: the group enemies is as it was
CollideAnyLeaves == enemies

\* player.kill() forgotten
KillPlayerNot == all_sprites

\* player.kill()
KillPlayer == all_sprites \ {PLAYER}

\* if pygame.sprite.spritecollideany(player, enemies): ...
CollisionCheck ==
    /\ pc = "collide"
    /\ IF SpriteCollideAny
       THEN /\ all_sprites' = KillPlayer
            /\ collisions' = collisions + 1
            /\ running' = FALSE
       ELSE UNCHANGED << all_sprites, collisions, running >>
    /\ enemies' = CollideAnyLeaves
    /\ pc' = "flip"
    /\ UNCHANGED << pending, keyboard, pressed_keys, player, sprite,
                    drawn, music, quitFrame, ticks,
                    born, updates, lateSpawns >>

\* pygame.display.flip(); clock.tick(FRAME_RATE)
FlipTick ==
    /\ pc = "flip"
    /\ pc' = "loop"
    /\ UNCHANGED << running, pending, keyboard, pressed_keys, player, sprite,
                    enemies, all_sprites, drawn, music, collisions, quitFrame, ticks,
                    born, updates, lateSpawns >>

\* The while loop ends
ExitLoop ==
    /\ pc = "loop"
    /\ ~LoopTest
    /\ pc' = "sleep"
    /\ UNCHANGED << running, pending, keyboard, pressed_keys, player, sprite,
                    enemies, all_sprites, drawn, music, collisions, quitFrame, ticks,
                    born, updates, lateSpawns >>

\* time.sleep(3); pygame.mixer.music.stop(); pygame.mixer.quit()
SleepAndStop ==
    /\ pc = "sleep"
    /\ music' = "stopped"
    /\ pc' = "done"
    /\ UNCHANGED << running, pending, keyboard, pressed_keys, player, sprite,
                    enemies, all_sprites, drawn, collisions, quitFrame, ticks,
                    born, updates, lateSpawns >>

Next ==
    \/ Poll
    \/ HandleEvent
    \/ PlayerUpdate
    \/ EnemiesUpdate
    \/ Render
    \/ CollisionCheck
    \/ FlipTick
    \/ ExitLoop
    \/ SleepAndStop

Spec == Init /\ [][Next]_vars

(* ----------------------- Player.update on its own ---------------------- *)

\* The player about to be updated for the first time, under any keys
InitPlayer ==
    /\ running = TRUE
    /\ pc = "player"
    /\ pending = 0
    /\ keyboard \in AllKeys
    /\ pressed_keys = keyboard
    /\ player = PlayerInit
    /\ sprite = << >>
    /\ enemies = {}
    /\ all_sprites = {PLAYER}
    /\ drawn = {}
    /\ music = "playing"
    /\ collisions = 0
    /\ quitFrame = FALSE
    /\ ticks = 0
    /\ born = << >>
    /\ updates = << >>
    /\ lateSpawns = 0

\* The frames between two calls of player.update, with no enemy and an
\* event that is no quit: the keys are sampled anew
NextKeys ==
    /\ pc = "enemies"
    /\ \E keys \in AllKeys :
        /\ keyboard' = keys
        /\ pressed_keys' = keys
    /\ pc' = "player"
    /\ UNCHANGED << running, pending, player, sprite, enemies, all_sprites, drawn,
                    music, collisions, quitFrame, ticks,
                    born, updates, lateSpawns >>

NextPlayer ==
    \/ PlayerUpdate
    \/ NextKeys

SpecPlayer == InitPlayer /\ [][NextPlayer]_vars

(* --------------------- the collision check on its own ------------------ *)

\* Positions of the player: multiples of its step within the screen
CollidePlayers == { [left |-> 0, top |-> 0], [left |-> PlayerStep, top |-> PlayerStep] }

\* Positions of an obstacle still in the groups after k >= 1 updates,
\* around the player: its right edge is >= 0 and its centre y >= 0
CollideLefts == (0 - EnemyWidth)..(PlayerStep + PlayerWidth + 1)

CollideTops == (0 - (EnemyHeight \div 2))..(PlayerStep + PlayerHeight + 1)

\* A spawn x from which an obstacle of the least speed comes to have its
\* left edge at l
CollideSpawnX(l) == SpawnXMin + ((l + (EnemyWidth \div 2) - SpawnXMin) % SpeedMin)

\* A frame about to run its collision check, one obstacle in the groups
InitCollide ==
    /\ running = TRUE
    /\ pc = "collide"
    /\ pending = 0
    /\ keyboard = NoKeys
    /\ pressed_keys = NoKeys
    /\ player \in CollidePlayers
    /\ \E l \in CollideLefts, t \in CollideTops :
          /\ sprite = << [left |-> l, top |-> t, speed |-> SpeedMin] >>
          /\ born = << [x |-> CollideSpawnX(l), y |-> t + (EnemyHeight \div 2),
                        speed |-> SpeedMin] >>
          /\ updates = << (CollideSpawnX(l) - (EnemyWidth \div 2) - l) \div SpeedMin >>
    /\ enemies = {1}
    /\ all_sprites = {PLAYER, 1}
    /\ drawn = {PLAYER, 1}
    /\ music = "playing"
    /\ collisions = 0
    /\ quitFrame = FALSE
    /\ ticks = 1
    /\ lateSpawns = 0

NextCollide ==
    \/ CollisionCheck
    \/ FlipTick
    \/ ExitLoop
    \/ SleepAndStop

SpecCollide == InitCollide /\ [][NextCollide]_vars

(* ------------------------ one obstacle, any spawn ---------------------- *)

\* Values of the three calls of random.randint, the ends of each range
\* included
WideXs == {SpawnXMin, SpawnXMin + 10, SpawnXMax}

WideYs == {SpawnYMin, SpawnYMin + 15, SpawnYMax}

WideSpeeds == SpeedMin..SpeedMax

WideSpawnChoices == WideXs \X WideYs \X WideSpeeds

\* Positions of the player: the origin and the right edge of the screen
EnemyPlayers ==
    { [left |-> 0, top |-> 0],
      [left |-> SCREEN_WIDTH - PlayerWidth, top |-> 0],
      [left |-> SCREEN_WIDTH - PlayerWidth, top |-> SCREEN_HEIGHT - PlayerHeight] }

\* A frame that has polled one event, no obstacle created so far and no
\* key held, in this frame or before
InitEnemy ==
    /\ running = TRUE
    /\ pc = "events"
    /\ pending = 1
    /\ keyboard = NoKeys
    /\ pressed_keys = NoKeys
    /\ player \in EnemyPlayers
    /\ sprite = << >>
    /\ enemies = {}
    /\ all_sprites = {PLAYER}
    /\ drawn = {PLAYER}
    /\ music = "playing"
    /\ collisions = 0
    /\ quitFrame = FALSE
    /\ ticks = 0
    /\ born = << >>
    /\ updates = << >>
    /\ lateSpawns = 0

\* The one event, with any spawn
HandleEventWide == HandleEventFrom(WideSpawnChoices)

\* A frame with no event and no key held
PollQuiet == PollFrom({0}, {NoKeys})

NextEnemy ==
    \/ HandleEventWide
    \/ PollQuiet
    \/ PlayerUpdate
    \/ EnemiesUpdate
    \/ Render
    \/ CollisionCheck
    \/ FlipTick
    \/ ExitLoop
    \/ SleepAndStop

SpecEnemy == InitEnemy /\ [][NextEnemy]_vars

\* The loop is sequential: the step that is next is taken
LiveEnemy == SpecEnemy /\ WF_vars(NextEnemy)

(* -------------------------------- claims ------------------------------- *)

Max(a, b) == IF a >= b THEN a ELSE b

Min(a, b) == IF a <= b THEN a ELSE b

\* The player's rectangle and that of enemy id share a pixel
Overlaps(id) ==
    /\ Max(player.left, sprite[id].left)
         < Min(player.left + PlayerWidth, sprite[id].left + EnemyWidth)
    /\ Max(player.top, sprite[id].top)
         < Min(player.top + PlayerHeight, sprite[id].top + EnemyHeight)

OverlapsAny == \E id \in enemies : Overlaps(id)

\* The step handles one event of the batch
Handles == pc = "events" /\ pending' = pending - 1

\* The step handles a quit-equivalent event
HandlesQuit == Handles /\ quitFrame'

\* The step handles a spawn-timer event
HandlesTick == Handles /\ ticks' = ticks + 1

\* Everything the game holds but the loop's own position and the music
game ==
    << pending, keyboard, pressed_keys, player, sprite, enemies, all_sprites,
       drawn, collisions, quitFrame, ticks, born, updates, lateSpawns >>

\* C1 as stated: in a frame in which a quit-equivalent event is drained,
\* the state is Terminated from that event on and the enemies.update() of
\* that frame moves no obstacle.
C1_NoUpdateInQuitFrame ==
    [][ /\ (quitFrame' => ~running')
        /\ ((quitFrame /\ pc = "enemies") => sprite' = sprite) ]_vars

\* C1 amended: in a frame in which a quit-equivalent event is drained, the
\* state is Terminated from that event on; the frame still runs to its end,
\* its enemies.update() moving every obstacle of the group left by its
\* speed, and no obstacle is moved in any later frame.
C1_QuitFrameCompletes ==
    [][ /\ (quitFrame' => ~running')
        /\ ((quitFrame /\ pc = "enemies") =>
               /\ pc' = "render"
               /\ \A id \in enemies :
                     sprite'[id].left = sprite[id].left - sprite[id].speed)
        /\ ((~running /\ pc \in {"loop", "sleep", "done"}) => sprite' = sprite)
      ]_vars

\* A quit frame in which enemies.update() has just moved an obstacle
C1_Witness ==
    /\ quitFrame
    /\ ~running
    /\ pc = "render"
    /\ enemies # {}

\* C2 as stated: the key state player.update receives is the snapshot of
\* the keyboard of that same frame.
C2_KeysOfThisFrame ==
    (pc = "player" /\ pressed_keys # Unbound) => pressed_keys = keyboard

\* C3 as stated: no frame fails; player.update always receives a defined
\* key state.
C3_NoFrameFails == pc # "error"

\* C4: after every Player.update the player's rectangle lies within the
\* screen.
C4_PlayerInScreen ==
    pc = "enemies" =>
        /\ 0 <= player.left
        /\ player.left + PlayerWidth <= SCREEN_WIDTH
        /\ 0 <= player.top
        /\ player.top + PlayerHeight <= SCREEN_HEIGHT

\* The player stopped by the right and bottom edges, pushing against both
C4_Witness ==
    /\ pc = "enemies"
    /\ pressed_keys = Key(FALSE, TRUE, FALSE, TRUE)
    /\ player.left + PlayerWidth = SCREEN_WIDTH
    /\ player.top + PlayerHeight = SCREEN_HEIGHT

\* C5: running goes from true to false only in the handling of a
\* quit-equivalent event or in a collision check that finds the player
\* overlapping an obstacle.
C5_OnlyQuitOrCollision ==
    [][ (running /\ ~running') =>
            \/ HandlesQuit
            \/ (pc = "collide" /\ OverlapsAny) ]_vars

\* Terminated by a collision in a frame that drained events, none a quit
C5_Witness ==
    /\ ~running
    /\ ~quitFrame
    /\ collisions = 1
    /\ pressed_keys = keyboard

\* C6: once running is false it stays false; once the frame in which it
\* became false is over, the loop is left, nothing of the game changes any
\* more, and the program ends with the music stopped.
C6_TerminatedAbsorbing ==
    [][ /\ (~running => ~running')
        /\ ((~running /\ pc \in {"loop", "sleep", "done"}) =>
               /\ pc' \in {"sleep", "done"}
               /\ game' = game)
        /\ (pc' = "done" => (pc \in {"sleep", "done"} /\ music' = "stopped"))
      ]_vars

\* The program over after a quit
C6_Witness ==
    /\ pc = "done"
    /\ ~running
    /\ music = "stopped"
    /\ quitFrame

\* C7: the player is in all_sprites until a collision check finds it
\* overlapping an obstacle; that check removes it, plays the collision
\* sound once and ends the game; nothing else removes it and it is removed
\* at most once.
C7_PlayerRemovedOnCollisionOnly ==
    /\ [](/\ (PLAYER \in all_sprites <=> collisions = 0)
          /\ collisions <= 1
          /\ (collisions = 1 => ~running))
    /\ [][ /\ ((pc = "collide" /\ OverlapsAny) =>
                  /\ PLAYER \in all_sprites
                  /\ PLAYER \notin all_sprites'
                  /\ collisions' = collisions + 1
                  /\ ~running')
           /\ ((PLAYER \in all_sprites /\ PLAYER \notin all_sprites') =>
                  (pc = "collide" /\ OverlapsAny))
           /\ (collisions' # collisions => (pc = "collide" /\ OverlapsAny))
           /\ (PLAYER \notin all_sprites => PLAYER \notin all_sprites')
         ]_vars

\* The collision check has just removed the player
C7_Witness ==
    /\ pc = "flip"
    /\ PLAYER \notin all_sprites
    /\ OverlapsAny

\* C8: an obstacle is in both groups as long as its right edge is >= 0
\* after its update (0 included) and leaves both in the update that first
\* makes the right edge negative, once and for all.
C8_RemovedWhenRightNegative ==
    /\ [](\A id \in DOMAIN sprite :
            /\ (id \in enemies => (id \in all_sprites /\ Right(sprite[id], EnemyWidth) >= 0))
            /\ (id \notin enemies =>
                   /\ id \notin all_sprites
                   /\ Right(sprite[id], EnemyWidth) < 0
                   /\ Right(sprite[id], EnemyWidth) + sprite[id].speed >= 0))
    /\ [][ \A id \in DOMAIN sprite :
             /\ (id \notin enemies => (id \notin enemies' /\ id \notin all_sprites'))
             /\ ((id \in enemies /\ id \notin enemies') => pc = "enemies")
         ]_vars

\* One obstacle updated to a right edge of exactly 0 and still in both
\* groups, another one gone
C8_Witness ==
    /\ pc = "render"
    /\ \E id \in enemies :
          /\ Right(sprite[id], EnemyWidth) = 0
          /\ id \in all_sprites
    /\ \E id \in DOMAIN sprite : id \notin enemies

\* C9: every obstacle of enemies is in all_sprites, all_sprites holds no
\* obstacle that is not in enemies, and the player is not in enemies.
C9_GroupsAgree ==
    /\ enemies \subseteq all_sprites
    /\ (all_sprites \ {PLAYER}) \subseteq enemies
    /\ PLAYER \notin enemies

\* One obstacle in both groups after another has left both
C9_Witness ==
    /\ PLAYER \in all_sprites
    /\ Cardinality(enemies) = 1
    /\ Len(sprite) = 2

\* C10: each spawn-timer event handled creates exactly one obstacle, in
\* both groups, and nothing else creates one; while the player is alive
\* all_sprites has one member more than enemies; after one tick only, with
\* no removal and no collision, the sizes are 2 and 1.
C10_OneObstaclePerTick ==
    /\ [](/\ Len(sprite) = ticks
          /\ (PLAYER \in all_sprites =>
                 Cardinality(all_sprites) = Cardinality(enemies) + 1)
          /\ ((Len(sprite) = 1 /\ Right(sprite[1], EnemyWidth) >= 0 /\ collisions = 0) =>
                 (Cardinality(all_sprites) = 2 /\ Cardinality(enemies) = 1)))
    /\ [][ /\ (HandlesTick =>
                  /\ Len(sprite') = Len(sprite) + 1
                  /\ enemies' = enemies \cup {Len(sprite')}
                  /\ all_sprites' = all_sprites \cup {Len(sprite')}
                  /\ Cardinality(enemies') = Cardinality(enemies) + 1)
           /\ ((Len(sprite') # Len(sprite) \/ ~(enemies' \subseteq enemies)) =>
                  HandlesTick)
         ]_vars

\* One tick handled from no obstacle at all
C10_Witness ==
    /\ Len(sprite) = 1
    /\ Cardinality(all_sprites) = 2
    /\ Cardinality(enemies) = 1
    /\ collisions = 0
    /\ pc = "player"

\* The four strict inequalities of the half-open rectangle intersection,
\* for a player at (pl, pt) and an obstacle at (ol, ot)
StrictOverlap(pl, pt, ol, ot) ==
    /\ pl < ol + EnemyWidth
    /\ ol < pl + PlayerWidth
    /\ pt < ot + EnemyHeight
    /\ ot < pt + PlayerHeight

\* C11: the collision check reports a hit exactly when an obstacle of
\* enemies strictly overlaps the player on both axes; rectangles that only
\* touch do not collide: with the player at (0,0) an obstacle at (70,10)
\* is hit and one at (75,10) is not.
C11_HitIffStrictOverlap ==
    pc = "flip" =>
        /\ (collisions = 1) <=>
              (\E id \in enemies :
                  StrictOverlap(player.left, player.top, sprite[id].left, sprite[id].top))
        /\ (collisions = 1) <=> OverlapsAny
        /\ (collisions = 1) <=> ~running
        /\ (player = PlayerInit /\ sprite[1].left = 70 /\ sprite[1].top = 10)
              => collisions = 1
        /\ (player = PlayerInit /\ sprite[1].left = 75 /\ sprite[1].top = 10)
              => collisions = 0

\* The check has run on the player at (0,0) and an obstacle at (70,10)
C11_Witness ==
    /\ pc = "flip"
    /\ player = PlayerInit
    /\ sprite[1].left = 70
    /\ sprite[1].top = 10
    /\ collisions = 1

\* The displacement the claim gives along x and along y
ClaimDx(keys) == IF keys.K_RIGHT THEN 5 ELSE IF keys.K_LEFT THEN -5 ELSE 0

ClaimDy(keys) == IF keys.K_DOWN THEN 5 ELSE IF keys.K_UP THEN -5 ELSE 0

\* C12: Player.update moves the player by dx = +5 if right is held, else
\* -5 if left is held, else 0, and by dy = +5 if down is held, else -5 if up
\* is held, else 0, along each axis on which the moved rectangle stays
\* within the screen (no clamp acts); with left and right held and neither
\* up nor down, that is (+5, 0).
C12_Displacement ==
    [][ (pc = "player" /\ pc' = "enemies") =>
            /\ (/\ 0 <= player.left + ClaimDx(pressed_keys)
                /\ player.left + ClaimDx(pressed_keys) + PlayerWidth <= SCREEN_WIDTH)
                  => player'.left = player.left + ClaimDx(pressed_keys)
            /\ (/\ 0 <= player.top + ClaimDy(pressed_keys)
                /\ player.top + ClaimDy(pressed_keys) + PlayerHeight <= SCREEN_HEIGHT)
                  => player'.top = player.top + ClaimDy(pressed_keys)
            /\ (/\ pressed_keys = Key(FALSE, FALSE, TRUE, TRUE)
                /\ player.left + 5 + PlayerWidth <= SCREEN_WIDTH)
                  => (player'.left = player.left + 5 /\ player'.top = player.top)
      ]_vars

\* The player moved from the origin with left and right both held
C12_Witness ==
    /\ pc = "enemies"
    /\ pressed_keys = Key(FALSE, FALSE, TRUE, TRUE)
    /\ player = [left |-> 5, top |-> 0]

\* C13: an obstacle spawned at (x0, y0) with speed s that has not been
\* removed is, after k calls of its update, centred on x0 - s*k and y0,
\* and its speed is s.
C13_LinearMotion ==
    \A id \in enemies :
        /\ sprite[id].left + (EnemyWidth \div 2)
              = born[id].x - born[id].speed * updates[id]
        /\ sprite[id].top + (EnemyHeight \div 2) = born[id].y
        /\ sprite[id].speed = born[id].speed

\* An obstacle of speed 13 after 10 updates
C13_Witness ==
    \E id \in enemies :
        /\ born[id].speed = 13
        /\ updates[id] = 10
        /\ sprite[id].left = born[id].x - 10 - 130

\* C14: every obstacle is created with x in [SCREEN_WIDTH+20,
\* SCREEN_WIDTH+100], y in [0, SCREEN_HEIGHT] and speed in [5, 20]; before
\* its first update its left edge is >= SCREEN_WIDTH and it does not
\* overlap the player.
C14_SpawnedOffScreen ==
    \A id \in DOMAIN sprite :
        /\ born[id].x \in (SCREEN_WIDTH + 20)..(SCREEN_WIDTH + 100)
        /\ born[id].y \in 0..SCREEN_HEIGHT
        /\ born[id].speed \in 5..20
        /\ updates[id] = 0 =>
              /\ sprite[id].speed = born[id].speed
              /\ sprite[id].left >= SCREEN_WIDTH
              /\ ~Overlaps(id)
              /\ ~StrictOverlap(player.left, player.top, sprite[id].left, sprite[id].top)

\* An obstacle just created at the least x, level with a player that
\* stands against the right edge of the screen
C14_Witness ==
    /\ pc = "player"
    /\ player.left + PlayerWidth = SCREEN_WIDTH
    /\ \E id \in enemies :
          /\ updates[id] = 0
          /\ born[id].x = SCREEN_WIDTH + 20
          /\ born[id].y = 15

\* C18: as long as the loop keeps executing frames (no quit, no
\* collision), every obstacle in the groups is eventually removed from
\* both of them.
C18_EventuallyRemoved ==
    \A id \in EnemyIds :
        (id \in enemies) ~>
            ((id \notin enemies /\ id \notin all_sprites) \/ ~running)

\* The slowest obstacle from the farthest spawn, removed with the loop
\* still running
C18_Witness ==
    /\ running
    /\ \E id \in DOMAIN sprite :
          /\ id \notin enemies
          /\ id \notin all_sprites
          /\ born[id].speed = 5
          /\ born[id].x = SCREEN_WIDTH + 100
          /\ updates[id] = 183

\* C15: the collision test has no effect and gives the same result when
\* evaluated again with no update in between: from the collision check to
\* the end of the frame no rectangle changes, no obstacle joins or leaves
\* a group, all_sprites changes at most by the removal of the player that
\* follows a hit, and the test evaluates as before.
C15_CollisionTestPure ==
    [][(pc \in {"collide", "flip"}) =>
          ( /\ (SpriteCollideAny' <=> SpriteCollideAny)
            /\ player' = player
            /\ sprite' = sprite
            /\ enemies' = enemies
            /\ all_sprites' \ {PLAYER} = all_sprites \ {PLAYER} )]_vars

\* The frame of a hit is over and the test still finds the hit
C15_Witness ==
    /\ pc = "loop"
    /\ collisions = 1
    /\ SpriteCollideAny
    /\ enemies # {}

\* C16: a quit-equivalent event does not end the draining of the frame's
\* events: every event left after it is handled before the frame goes on,
\* and each spawn-timer event among them creates one obstacle in both
\* groups.
C16_DrainContinuesAfterQuit ==
    /\ []((pc = "events") <=> (pending > 0))
    /\ [][(pc = "events" /\ quitFrame) =>
              ( /\ pending' = pending - 1
                /\ (ticks' = ticks + 1) =>
                      ( /\ lateSpawns' = lateSpawns + 1
                        /\ Len(sprite') = Len(sprite) + 1
                        /\ enemies' = enemies \cup {Len(sprite')}
                        /\ all_sprites' = all_sprites \cup {Len(sprite')}
                        /\ Len(sprite') \notin enemies ) )]_vars

\* A frame whose events are drained, an obstacle created after the quit
C16_Witness ==
    /\ pc = "player"
    /\ pending = 0
    /\ ~running
    /\ quitFrame
    /\ lateSpawns = 1
    /\ Len(sprite) \in (enemies \cap all_sprites)
    /\ updates[Len(sprite)] = 0

\* The obstacle has removed itself: an update made its right edge negative
Gone(id) == updates[id] > 0 /\ Right(sprite[id], EnemyWidth) < 0

\* C17: an obstacle that removed itself in an update pass is in neither
\* group from then on; it is not among the sprites rendered in that frame
\* or later, no collision is found on it, and it is never updated again.
C17_RemovedTakesNoPart ==
    /\ [](\A id \in DOMAIN sprite :
            Gone(id) =>
                /\ id \notin enemies
                /\ id \notin all_sprites
                /\ (pc # "render" => id \notin drawn))
    /\ [][( /\ \A id \in DOMAIN sprite :
                  Gone(id) =>
                      (sprite'[id] = sprite[id] /\ updates'[id] = updates[id])
            /\ (collisions' # collisions) =>
                  (\E id \in DOMAIN sprite : ~Gone(id) /\ Overlaps(id)) )]_vars

\* A frame rendered without the obstacle that removed itself, the other
\* obstacle drawn
C17_Witness ==
    /\ pc = "flip"
    /\ Len(sprite) = 2
    /\ \E id \in DOMAIN sprite :
          /\ Gone(id)
          /\ id \notin drawn
    /\ \E id \in enemies : id \in drawn

====
